---- MODULE Spec2Model ----
(***************************************************************************)
(* terminal-cubes.js: a software 3D pipeline that renders rotating cubes   *)
(* as depth-tested wireframe lines into a character frame buffer.          *)
(*                                                                         *)
(* JavaScript numbers are modelled in fixed point: a real v is the integer *)
(* v * Scale, rounded.  The two IEEE values the code can produce besides   *)
(* finite numbers, +/-Infinity and NaN, are kept as values of their own.   *)
(***************************************************************************)
EXTENDS Integers, Sequences, FiniteSets, TLC

\* ------------------------------------------------------------ bounds
\* fixed-point resolution: Scale units make 1.0
Scale == 1000
\* the terminal's size (process.stdout.columns / rows)
WIDTH == 12
HEIGHT == 6
\* drawPixel / drawLine calls per frame in the rasterizer specification
MaxCalls == 2
\* timer ticks explored
MaxFrames == 2
numCubes == 1
MaxQueue == 3

\* ------------------------------------------------------------ numbers
Infinity == 1000000000
NegInfinity == -1000000000
NaN == 2000000000

IsNaN(v) == v = NaN
IsFinite(v) == v # NaN /\ v # Infinity /\ v # NegInfinity

Abs(v) == IF v < 0 THEN -v ELSE v
Sign(v) == IF v < 0 THEN -1 ELSE IF v > 0 THEN 1 ELSE 0

\* integer quotient rounded to the nearest (the float result, rounded)
DivRound(a, b) ==
    LET q == (2 * Abs(a) + Abs(b)) \div (2 * Abs(b))
    IN  IF Sign(a) * Sign(b) < 0 THEN -q ELSE q

\* a * b and a / b on fixed-point finite numbers
FMul(a, b) == DivRound(a * b, Scale)
FDiv(a, b) == DivRound(a * Scale, b)

\* JavaScript's a / b: 0/0 is NaN, v/0 is +/-Infinity
JsDiv(a, b) ==
    IF IsNaN(a) \/ IsNaN(b) THEN NaN
    ELSE IF b = 0 THEN (IF a = 0 THEN NaN ELSE IF a > 0 THEN Infinity ELSE NegInfinity)
    ELSE FDiv(a, b)

\* JavaScript's a < b: false whenever an operand is NaN
JsLess(a, b) == ~IsNaN(a) /\ ~IsNaN(b) /\ a < b

\* Math.round of a fixed-point number, as an integer: halves round up
MathRound(v) == (v + Scale \div 2) \div Scale

RECURSIVE SqrtSearch(_, _, _)
SqrtSearch(n, lo, hi) ==
    IF lo >= hi THEN lo
    ELSE LET mid == (lo + hi + 1) \div 2
         IN  IF mid * mid <= n THEN SqrtSearch(n, mid, hi)
             ELSE SqrtSearch(n, lo, mid - 1)

\* floor of the square root of an integer
ISqrt(n) == SqrtSearch(n, 0, IF n < 46340 THEN n ELSE 46340)

\* the element of a one-element set. In {e(x) : x \in {v}} the value v is
\* computed once and e works on it, as a JavaScript statement works on the
\* value the statement before it left
Only(S) == CHOOSE r \in S : TRUE

\* ------------------------------------------------------------ buffers
Cells == 0 .. (WIDTH * HEIGHT - 1)

\* a frame buffer cell: the colour escape sequence (NoEscape in a blank
\* cell) and the glyph
NoEscape == -1
Blank == [esc |-> NoEscape, char |-> " "]

\* Array(WIDTH * HEIGHT).fill(' ') and .fill(Infinity)
BlankFrame == [i \in Cells |-> Blank]
FarDepth == [i \in Cells |-> Infinity]

VARIABLES
    pc,           \* "boot" (script not run), "running" (timer armed), "exited"
    args,         \* process.argv.slice(2)
    ASCII_RAMP,   \* the glyph ramp in use
    cubes,        \* the scene's objects
    time,         \* frames rendered (time advances 0.01 per frame)
    frameBuffer,  \* the frame buffer of the frame in hand
    zBuffer,      \* its depth buffer
    frags,        \* history: the drawPixel calls of the frame in hand
    calls,        \* history: the draw calls made on the frame in hand
    tris,         \* history: the triangles the frame in hand met
    prevFrame,    \* history: the frame buffer the previous frame emitted
    output,       \* the text last written to the terminal, as rows of cells
    probe,        \* result of the last function applied on its own
    queue,        \* the event loop: expired timers and keys not yet handled
    running,      \* the handler executions in flight, each at its stage
    wrote         \* history: <<buffer pair, frame>> for every frame rasterized

vars == <<pc, args, ASCII_RAMP, cubes, time, frameBuffer, zBuffer, frags,
          calls, tris, prevFrame, output, probe, queue, running, wrote>>

\* the event loop's part of the state
loop == <<queue, running, wrote>>

\* nothing waiting, nothing in flight
LoopIdle == queue = <<>> /\ running = <<>> /\ wrote = {}

\* ' .:-=+*#%@', the default ramp (line 8)
DefaultRamp == <<" ", ".", ":", "-", "=", "+", "*", "#", "%", "@">>

NoProbe == [kind |-> "none"]

\* ------------------------------------------------------------ drawPixel
\* (mutant) the test of x against WIDTH left out
OnScreenNoRightEdge(x, y) == ~(x < 0 \/ y < 0 \/ y >= HEIGHT)

\* line 179, negated: the cell (x, y) is on the screen
OnScreen(x, y) == ~(x < 0 \/ x >= WIDTH \/ y < 0 \/ y >= HEIGHT)

\* (mutant) no depth test: the last write wins
DepthTestNone(z, stored) == TRUE

\* (mutant) the depth test with <= for <
DepthTestLessEq(z, stored) == ~IsNaN(z) /\ ~IsNaN(stored) /\ z <= stored

\* line 182: the depth test
DepthTest(z, stored) == JsLess(z, stored)

\* the raster state a frame threads through its draw calls
Raster(fb, zb, log) == [frameBuffer |-> fb, zBuffer |-> zb, frags |-> log]

\* drawPixel(x, y, z, char, color, frameBuffer, zBuffer); the call is
\* appended to the history with its arguments as passed
drawPixel(R, x, y, z, char, color) ==
    LET rx == MathRound(x)
        ry == MathRound(y)
        log == Append(R.frags, [x |-> x, y |-> y, z |-> z, char |-> char, color |-> color])
    IN  IF ~OnScreen(rx, ry) THEN Raster(R.frameBuffer, R.zBuffer, log)
        ELSE LET index == ry * WIDTH + rx
             IN  IF DepthTest(z, R.zBuffer[index])
                 THEN Raster([R.frameBuffer EXCEPT ![index] = [esc |-> color, char |-> char]],
                             [R.zBuffer EXCEPT ![index] = z],
                             log)
                 ELSE Raster(R.frameBuffer, R.zBuffer, log)

\* ------------------------------------------------------------ drawLine
\* Math.pow(d, 2) of a distance in cells, kept in units of (10/Scale)^2 so
\* that long off-screen lines stay within the integers
Pow2(d) == LET q == Abs(d) \div 10 IN q * q

\* line 202: t, the distance from p1 to the stepped cell over the distance
\* from p1 to the last cell
lineT(x0, y0, x1, y1, p1) ==
    JsDiv(ISqrt(Pow2(x0 * Scale - p1.x) + Pow2(y0 * Scale - p1.y)),
          ISqrt(Pow2(x1 * Scale - p1.x) + Pow2(y1 * Scale - p1.y)))

\* line 203: z = p1.z + (p2.z - p1.z) * t
lineZ(p1, p2, t) == IF IsNaN(t) THEN NaN ELSE p1.z + FMul(p2.z - p1.z, t)

RECURSIVE lineWalk(_, _, _, _, _, _, _, _, _)
\* lines 201-210: the loop, from the cell (x0, y0) with error term err
lineWalk(R, x0, y0, err, x1, y1, p1, p2, style) ==
    LET dx == Abs(x1 - MathRound(p1.x))
        dy == Abs(y1 - MathRound(p1.y))
        sx == IF MathRound(p1.x) < x1 THEN 1 ELSE -1
        sy == IF MathRound(p1.y) < y1 THEN 1 ELSE -1
        z == lineZ(p1, p2, lineT(x0, y0, x1, y1, p1))
        e2 == 2 * err
        stepX == e2 > -dy
        stepY == e2 < dx
    IN  Only({ IF x0 = x1 /\ y0 = y1 THEN R1
               ELSE lineWalk(R1,
                             IF stepX THEN x0 + sx ELSE x0,
                             IF stepY THEN y0 + sy ELSE y0,
                             (IF stepX THEN err - dy ELSE err) + (IF stepY THEN dx ELSE 0),
                             x1, y1, p1, p2, style) :
               R1 \in {drawPixel(R, x0 * Scale, y0 * Scale, z, style.char, style.color)} })

\* drawLine(p1, p2, char, color, frameBuffer, zBuffer)
drawLine(R, p1, p2, style) ==
    LET x0 == MathRound(p1.x)
        y0 == MathRound(p1.y)
        x1 == MathRound(p2.x)
        y1 == MathRound(p2.y)
    IN  lineWalk(R, x0, y0, Abs(x1 - x0) - Abs(y1 - y0), x1, y1, p1, p2, style)

\* ------------------------------------------------------------ rasterizer
\* The rasterizer on its own: a frame is a fresh buffer pair followed by
\* drawPixel and drawLine calls with arguments of any kind a frame can pass
\* (finite coordinates on and off the screen; finite or NaN depths).

\* glyph and colour of a draw call
Styles == {[char |-> "#", color |-> 0], [char |-> "@", color |-> Scale]}

\* (x, y) arguments: cell (0,0); left of the screen; one past the right edge
\* of row 0; one past the bottom row; the last cell
PixelPoints ==
    { <<(4 * Scale) \div 10, (4 * Scale) \div 10>>,
      <<-((6 * Scale) \div 10), 0>>,
      <<WIDTH * Scale - Scale \div 2, 0>>,
      <<(WIDTH - 1) * Scale, HEIGHT * Scale - Scale \div 2>>,
      <<(WIDTH - 1) * Scale, (HEIGHT - 1) * Scale>> }

PixelDepths == {Scale, 2 * Scale, NaN}

Vertex(x, y, z) == [x |-> x, y |-> y, z |-> z]

\* endpoints of the lines drawn among the pixel calls: a slanted line in both
\* directions, a line leaving the screen, and two endpoints in one cell, the
\* first of them on the cell's centre
LinePairs ==
    LET a == Vertex((4 * Scale) \div 10, (4 * Scale) \div 10, Scale)
        b == Vertex(3 * Scale, (16 * Scale) \div 10, 2 * Scale)
        c == Vertex((WIDTH + 1) * Scale, (HEIGHT - 1) * Scale, Scale \div 2)
        d == Vertex(Scale, Scale, Scale)
        e == Vertex((12 * Scale) \div 10, (9 * Scale) \div 10, 2 * Scale)
    IN  { <<a, b>>, <<b, a>>, <<b, c>>, <<d, e>> }

RasterInit ==
    /\ pc = "running"
    /\ args = <<>>
    /\ ASCII_RAMP = DefaultRamp
    /\ cubes = <<>>
    /\ time = 0
    /\ frameBuffer = BlankFrame
    /\ zBuffer = FarDepth
    /\ frags = <<>>
    /\ calls = 0
    /\ tris = <<>>
    /\ prevFrame = BlankFrame
    /\ output = <<>>
    /\ probe = NoProbe
    /\ LoopIdle

RasterFrame == <<pc, args, ASCII_RAMP, cubes, time, tris, prevFrame, output, probe, loop>>

\* lines 240-241: the next frame's buffers
NewFrame ==
    /\ calls > 0
    /\ frameBuffer' = BlankFrame
    /\ zBuffer' = FarDepth
    /\ frags' = <<>>
    /\ calls' = 0
    /\ UNCHANGED RasterFrame

\* one drawPixel call on the frame in hand
DrawPixel ==
    /\ calls < MaxCalls
    /\ \E p \in PixelPoints, z \in PixelDepths, s \in Styles :
          LET R == drawPixel(Raster(frameBuffer, zBuffer, frags), p[1], p[2], z, s.char, s.color)
          IN  /\ frameBuffer' = R.frameBuffer
              /\ zBuffer' = R.zBuffer
              /\ frags' = R.frags
    /\ calls' = calls + 1
    /\ UNCHANGED RasterFrame

\* one drawLine call on the frame in hand
DrawLine ==
    /\ calls < MaxCalls
    /\ \E l \in LinePairs, s \in Styles :
          LET R == drawLine(Raster(frameBuffer, zBuffer, frags), l[1], l[2], s)
          IN  /\ frameBuffer' = R.frameBuffer
              /\ zBuffer' = R.zBuffer
              /\ frags' = R.frags
    /\ calls' = calls + 1
    /\ UNCHANGED RasterFrame

RasterNext == NewFrame \/ DrawPixel \/ DrawLine

SpecRaster == RasterInit /\ [][RasterNext]_vars

\* ------------------------------------------------------------ claims C1-C3
\* the cell a call addresses: column and row of its rounded coordinates
Addresses(f, i) ==
    /\ MathRound(f.x) = i % WIDTH
    /\ MathRound(f.y) = i \div WIDTH

\* positions in the history of the calls addressed to cell i
CallsAt(i) == {k \in 1 .. Len(frags) : Addresses(frags[k], i)}

\* the least of the depths the calls at cell i carried; a NaN carries none
\* (IEEE minNum); +Infinity when there is none
MinDepthAt(i) ==
    LET ds == {frags[k].z : k \in {j \in CallsAt(i) : ~IsNaN(frags[j].z)}}
    IN  IF ds = {} THEN Infinity ELSE CHOOSE d \in ds : \A e \in ds : d <= e

\* C1: in every frame, after any sequence of drawPixel calls, each cell's
\* stored depth is the minimum depth of the fragments addressed to it, and
\* +Infinity when none was
C1_ZBufferHoldsMinimum == \A i \in Cells : zBuffer[i] = MinDepthAt(i)

\* a cell was addressed by a farther fragment first and a nearer one later,
\* and another cell by none
C1_Witness ==
    /\ \E i \in Cells : \E j, k \in CallsAt(i) :
          j < k /\ JsLess(frags[k].z, frags[j].z) /\ zBuffer[i] = frags[k].z
    /\ \E i \in Cells : CallsAt(i) = {} /\ zBuffer[i] = Infinity

\* the step made one drawPixel call, f
PixelStep == Len(frags') = Len(frags) + 1

LastCall == frags'[Len(frags')]

\* the strict depth test on the call of a step, at the cell i it addresses
StrictTestAt(i) ==
    IF LastCall.z # NaN /\ LastCall.z < zBuffer[i]
    THEN /\ zBuffer'[i] = LastCall.z
         /\ frameBuffer'[i] = [esc |-> LastCall.color, char |-> LastCall.char]
    ELSE /\ zBuffer'[i] = zBuffer[i]
         /\ frameBuffer'[i] = frameBuffer[i]

\* the earliest of the calls at cell i that carried the minimum depth
EarliestMinAt(i) ==
    CHOOSE k \in CallsAt(i) :
        /\ frags[k].z = MinDepthAt(i)
        /\ \A j \in CallsAt(i) : frags[j].z = MinDepthAt(i) => k <= j

\* every cell shows the glyph and colour of the earliest minimum-depth call
EarliestMinShown ==
    \A i \in Cells :
        IF MinDepthAt(i) = Infinity THEN frameBuffer[i] = Blank
        ELSE frameBuffer[i] = [esc |-> frags[EarliestMinAt(i)].color,
                               char |-> frags[EarliestMinAt(i)].char]

\* C2: drawPixel's depth test is strict: a fragment not nearer than the
\* stored depth leaves depth and glyph/colour alone, a nearer one overwrites
\* both; so each cell shows the earliest fragment of minimum depth
C2_StrictDepthTest ==
    [][ /\ PixelStep => \A i \in Cells : Addresses(LastCall, i) => StrictTestAt(i)
        /\ EarliestMinShown' ]_vars

\* two calls of equal depth and different glyphs at one cell: the first shows
C2_Witness ==
    \E i \in Cells : \E j, k \in CallsAt(i) :
        /\ j < k
        /\ frags[j].z = frags[k].z
        /\ frags[j].z = zBuffer[i]
        /\ frags[j].char # frags[k].char
        /\ frameBuffer[i].char = frags[j].char

\* the rounded coordinates of a call are off the screen
OffScreen(f) ==
    \/ MathRound(f.x) < 0
    \/ MathRound(f.x) >= WIDTH
    \/ MathRound(f.y) < 0
    \/ MathRound(f.y) >= HEIGHT

\* C3: a drawPixel call off the screen changes no cell of either buffer; a
\* call on the screen changes at most the cell at y * WIDTH + x
C3_Clipping ==
    [][ PixelStep =>
          \A i \in Cells :
              (OffScreen(LastCall) \/ i # MathRound(LastCall.y) * WIDTH + MathRound(LastCall.x))
                 => (frameBuffer'[i] = frameBuffer[i] /\ zBuffer'[i] = zBuffer[i]) ]_vars

\* the last call of the frame was one past the right edge of a row, with a
\* finite depth, after a call that drew
C3_Witness ==
    /\ Len(frags) >= 2
    /\ MathRound(frags[Len(frags)].x) = WIDTH
    /\ MathRound(frags[Len(frags)].y) \in 0 .. (HEIGHT - 2)
    /\ IsFinite(frags[Len(frags)].z)
    /\ \E i \in Cells : frameBuffer[i] # Blank
    /\ frameBuffer[(MathRound(frags[Len(frags)].y) + 1) * WIDTH] = Blank

\* ------------------------------------------------------------ drawLine alone
\* drawLine applied once, to a pair of finite endpoints, on a fresh buffer pair

LineXs == { -((13 * Scale) \div 10), 0, (4 * Scale) \div 10, (25 * Scale) \div 10,
            5 * Scale, WIDTH * Scale + (7 * Scale) \div 10 }
LineYs == { 0, (6 * Scale) \div 10, 3 * Scale, (45 * Scale) \div 10 }

LineInit == RasterInit

LineProbe ==
    /\ calls = 0
    /\ \E x1 \in LineXs, y1 \in LineYs, x2 \in LineXs, y2 \in LineYs,
       z1 \in {Scale \div 2, 2 * Scale}, z2 \in {-Scale, 2 * Scale} :
          LET p1 == Vertex(x1, y1, z1)
              p2 == Vertex(x2, y2, z2)
              R == drawLine(Raster(frameBuffer, zBuffer, frags), p1, p2,
                            [char |-> "#", color |-> 0])
          IN  /\ frameBuffer' = R.frameBuffer
              /\ zBuffer' = R.zBuffer
              /\ frags' = R.frags
              /\ probe' = [kind |-> "line", p1 |-> p1, p2 |-> p2]
    /\ calls' = 1
    /\ UNCHANGED <<pc, args, ASCII_RAMP, cubes, time, tris, prevFrame, output, loop>>

LineNext == LineProbe

SpecLine == LineInit /\ [][LineNext]_vars

\* ------------------------------------------------------------ claim C4
\* the depths of a sequence of calls never reverse direction
Monotonic(log) ==
    \/ \A k \in 1 .. (Len(log) - 1) : ~IsNaN(log[k].z) /\ log[k].z <= log[k + 1].z
    \/ \A k \in 1 .. (Len(log) - 1) : ~IsNaN(log[k + 1].z) /\ log[k].z >= log[k + 1].z

\* C4: for finite p1 # p2 the depths drawLine passes to drawPixel are
\* monotonic, the first is exactly z1 and the last exactly z2
C4_LineDepthEndpoints ==
    (probe.kind = "line" /\ <<probe.p1.x, probe.p1.y>> # <<probe.p2.x, probe.p2.y>>) =>
        /\ Monotonic(frags)
        /\ frags[1].z = probe.p1.z
        /\ frags[Len(frags)].z = probe.p2.z

\* ------------------------------------------------------------ vec3, mat4
\* angles and vectors are fixed-point numbers; a matrix is its 16 numbers
Pi == DivRound(314159 * Scale, 100000)
HalfPi == DivRound(Pi, 2)

\* the sine series on [-pi/2, pi/2]
SinSeries(x) ==
    LET x2 == FMul(x, x)
        x3 == FMul(x2, x)
        x5 == FMul(x3, x2)
        x7 == FMul(x5, x2)
    IN  x - DivRound(x3, 6) + DivRound(x5, 120) - DivRound(x7, 5040)

\* Math.sin and Math.cos
MathSin(a) ==
    LET r == a % (2 * Pi)
        h == IF r > Pi THEN r - 2 * Pi ELSE r
    IN  IF h > HalfPi THEN SinSeries(Pi - h)
        ELSE IF h < -HalfPi THEN SinSeries(-Pi - h)
        ELSE SinSeries(h)

MathCos(a) == MathSin(a + HalfPi)

vec3_subtract(a, b) == Vertex(a.x - b.x, a.y - b.y, a.z - b.z)

vec3_dot(a, b) == FMul(a.x, b.x) + FMul(a.y, b.y) + FMul(a.z, b.z)

vec3_cross(a, b) ==
    Vertex(FMul(a.y, b.z) - FMul(a.z, b.y),
           FMul(a.z, b.x) - FMul(a.x, b.z),
           FMul(a.x, b.y) - FMul(a.y, b.x))

vec3_normalize(a) ==
    LET len == ISqrt(a.x * a.x + a.y * a.y + a.z * a.z)
    IN  IF len > 0 THEN Vertex(FDiv(a.x, len), FDiv(a.y, len), FDiv(a.z, len))
        ELSE a

mat4_create ==
    << Scale, 0, 0, 0,
       0, Scale, 0, 0,
       0, 0, Scale, 0,
       0, 0, 0, Scale >>

\* result[i * 4 + j] = sum over k of a[i * 4 + k] * b[k * 4 + j]; the
\* sequences are indexed from 1
mat4_multiply(a, b) ==
    [n \in 1 .. 16 |->
        LET i == (n - 1) \div 4
            j == (n - 1) % 4
        IN  FMul(a[i * 4 + 1], b[j + 1]) + FMul(a[i * 4 + 2], b[4 + j + 1])
            + FMul(a[i * 4 + 3], b[8 + j + 1]) + FMul(a[i * 4 + 4], b[12 + j + 1])]

mat4_fromXRotation(angle) ==
    LET c == MathCos(angle)
        s == MathSin(angle)
    IN  << Scale, 0, 0, 0,
           0, c, -s, 0,
           0, s, c, 0,
           0, 0, 0, Scale >>

mat4_fromYRotation(angle) ==
    LET c == MathCos(angle)
        s == MathSin(angle)
    IN  << c, 0, s, 0,
           0, Scale, 0, 0,
           -s, 0, c, 0,
           0, 0, 0, Scale >>

\* line 108: the perspective divisor, w = m[3]*x + m[7]*y + m[11]*z + m[15]
transformW(m, p) == FMul(m[4], p.x) + FMul(m[8], p.y) + FMul(m[12], p.z) + m[16]

mat4_transformPoint(m, p) ==
    LET w == transformW(m, p)
    IN  Vertex(JsDiv(FMul(m[1], p.x) + FMul(m[5], p.y) + FMul(m[9], p.z) + m[13], w),
               JsDiv(FMul(m[2], p.x) + FMul(m[6], p.y) + FMul(m[10], p.z) + m[14], w),
               JsDiv(FMul(m[3], p.x) + FMul(m[7], p.y) + FMul(m[11], p.z) + m[15], w))

\* ------------------------------------------------------------ camera, mesh
camera ==
    [position |-> Vertex(0, 0, -5 * Scale),
     target |-> Vertex(0, 0, 0),
     up |-> Vertex(0, Scale, 0)]

\* cubeMesh.vertices[k].pos, k from 0
cubeVertices ==
    << Vertex(-Scale, -Scale, Scale), Vertex(Scale, -Scale, Scale),
       Vertex(Scale, Scale, Scale), Vertex(-Scale, Scale, Scale),
       Vertex(-Scale, -Scale, -Scale), Vertex(-Scale, Scale, -Scale),
       Vertex(Scale, Scale, -Scale), Vertex(Scale, -Scale, -Scale) >>

cubeIndices ==
    << 0, 1, 2, 0, 2, 3,
       4, 5, 6, 4, 6, 7,
       3, 2, 6, 3, 6, 5,
       0, 1, 7, 0, 7, 4,
       1, 7, 6, 1, 6, 2,
       0, 4, 5, 0, 5, 3 >>

createViewMatrix(cam) ==
    LET zAxis == vec3_normalize(vec3_subtract(cam.position, cam.target))
        xAxis == vec3_normalize(vec3_cross(cam.up, zAxis))
        yAxis == vec3_cross(zAxis, xAxis)
    IN  << xAxis.x, yAxis.x, zAxis.x, 0,
           xAxis.y, yAxis.y, zAxis.y, 0,
           xAxis.z, yAxis.z, zAxis.z, 0,
           -vec3_dot(xAxis, cam.position), -vec3_dot(yAxis, cam.position),
           -vec3_dot(zAxis, cam.position), Scale >>

createProjectionMatrix(fov, aspect, near, far) ==
    LET f == FDiv(Scale, FDiv(MathSin(DivRound(fov, 2)), MathCos(DivRound(fov, 2))))
        rangeInv == FDiv(Scale, near - far)
    IN  << FDiv(f, aspect), 0, 0, 0,
           0, f, 0, 0,
           0, 0, FMul(near + far, rangeInv), -Scale,
           0, 0, FMul(FMul(near, far), rangeInv) * 2, 0 >>

\* line 246: the session's projection
projectionMatrix ==
    createProjectionMatrix(HalfPi, FDiv(WIDTH * Scale, HEIGHT * Scale),
                           Scale \div 10, 100 * Scale)

\* lines 261-262: normalized device coordinates to screen cells
screenX(v) == IF IsFinite(v) THEN (DivRound(v, 2) + Scale \div 2) * WIDTH ELSE v
screenY(v) ==
    IF IsFinite(v) THEN (DivRound(-v, 2) + Scale \div 2) * HEIGHT
    ELSE IF IsNaN(v) THEN NaN ELSE -v

\* lines 259-264: a vertex through the transform and the screen mapping
toScreen(transform, pos) ==
    LET tv == mat4_transformPoint(transform, pos)
    IN  Vertex(screenX(tv.x), screenY(tv.y), tv.z)

\* ------------------------------------------------------------ renderFrame
\* line 247
lightDir == vec3_normalize(Vertex(Scale, Scale, -Scale))

\* cubeMesh.vertices[cubeMesh.indices[i]].pos, i from 0
meshVertex(i) == cubeVertices[cubeIndices[i + 1] + 1]

\* lines 267-271: the normal of the triangle at indices i .. i+2
faceNormal(i) ==
    LET v1 == meshVertex(i)
        v2 == meshVertex(i + 1)
        v3 == meshVertex(i + 2)
    IN  vec3_normalize(vec3_cross(vec3_subtract(v2, v1), vec3_subtract(v3, v1)))

\* line 272: the lighting intensity of the triangle at indices i .. i+2
faceIntensity(i) == vec3_dot(faceNormal(i), lightDir)

\* (mutant) no culling
LitAlways(intensity) == TRUE

\* line 274: the triangle is drawn
Lit(intensity) == intensity > 0

\* no glyph index is computed for a triangle that is not drawn
NoGlyph == -1

\* line 279: Math.floor(intensity * (ASCII_RAMP.length - 1))
glyphIndex(intensity, ramp) == (intensity * (Len(ramp) - 1)) \div Scale

\* ASCII_RAMP[k]: undefined outside the ramp
rampChar(ramp, k) == IF k \in 0 .. (Len(ramp) - 1) THEN ramp[k + 1] ELSE "undefined"

\* line 281: gradient.rgbAt(intensity); a colour is named by its stop
rgbAt(intensity) == intensity

\* the state a frame threads through its triangles: the raster and the
\* history of the triangles met
FrameState(R, log) == [R |-> R, tris |-> log]

\* lines 266-286, one triangle of cube number c
renderTriangle(F, c, i, tv, ramp) ==
    LET tv1 == tv[cubeIndices[i + 1] + 1]
        tv2 == tv[cubeIndices[i + 2] + 1]
        tv3 == tv[cubeIndices[i + 3] + 1]
        \* lines 279-284
        edges(intensity) ==
            LET k == glyphIndex(intensity, ramp)
                style == [char |-> rampChar(ramp, k), color |-> rgbAt(intensity)]
            IN  Only({ drawLine(R2, tv3, tv1, style) :
                       R2 \in { drawLine(R1, tv2, tv3, style) :
                                R1 \in {drawLine(F.R, tv1, tv2, style)} } })
        entry(intensity, Rout) ==
            [cube |-> c, i |-> i, intensity |-> intensity,
             lit |-> Lit(intensity),
             glyph |-> IF Lit(intensity) THEN glyphIndex(intensity, ramp) ELSE NoGlyph,
             calls |-> Len(Rout.frags) - Len(F.R.frags),
             before |-> [frameBuffer |-> F.R.frameBuffer, zBuffer |-> F.R.zBuffer],
             after |-> [frameBuffer |-> Rout.frameBuffer, zBuffer |-> Rout.zBuffer]]
    IN  Only({ Only({ FrameState(Rout, Append(F.tris, entry(intensity, Rout))) :
                      Rout \in {IF Lit(intensity) THEN edges(intensity) ELSE F.R} }) :
               intensity \in {faceIntensity(i)} })

RECURSIVE renderTriangles(_, _, _, _, _)
\* line 266: for (let i = 0; i < cubeMesh.indices.length; i += 3)
renderTriangles(F, c, i, tv, ramp) ==
    IF i >= Len(cubeIndices) THEN F
    ELSE Only({ renderTriangles(F1, c, i + 3, tv, ramp) :
                F1 \in {renderTriangle(F, c, i, tv, ramp)} })

\* (mutant) the update also turns the object about z
rotateCubeAboutZ(cube) ==
    [cube EXCEPT !.rotation.x = @ + Scale \div 100, !.rotation.y = @ + Scale \div 100,
                 !.rotation.z = @ + Scale \div 100]

\* lines 250-251
rotateCube(cube) ==
    [cube EXCEPT !.rotation.x = @ + Scale \div 100, !.rotation.y = @ + Scale \div 100]

\* (mutant) the world matrix also carries the object's position
worldMatrixAtPosition(cube) ==
    [k \in 1 .. 16 |->
        LET m == mat4_multiply(mat4_fromXRotation(cube.rotation.x),
                               mat4_fromYRotation(cube.rotation.y))
        IN  CASE k = 13 -> m[13] + cube.position.x
              [] k = 14 -> m[14] + cube.position.y
              [] k = 15 -> m[15] + cube.position.z
              [] OTHER -> m[k]]

\* lines 253-256
worldMatrix(cube) ==
    mat4_multiply(mat4_fromXRotation(cube.rotation.x),
                  mat4_fromYRotation(cube.rotation.y))

\* lines 253-257
cubeTransform(cube) ==
    mat4_multiply(projectionMatrix,
                  mat4_multiply(createViewMatrix(camera), worldMatrix(cube)))

\* lines 259-264: the mesh's vertices on the screen
transformedVertices(transform) ==
    [k \in 1 .. Len(cubeVertices) |-> toScreen(transform, cubeVertices[k])]

\* lines 253-286: one cube, its rotation already advanced
renderCube(F, c, cube, ramp) ==
    Only({ renderTriangles(F, c, 0, tv, ramp) :
           tv \in { transformedVertices(transform) : transform \in {cubeTransform(cube)} } })

RECURSIVE renderCubes(_, _, _, _)
\* line 249: for (const cube of cubes), from cube number c on
renderCubes(F, c, scene, ramp) ==
    IF c > Len(scene) THEN F
    ELSE Only({ renderCubes(F1, c + 1, scene, ramp) :
                F1 \in {renderCube(F, c, scene[c], ramp)} })

\* lines 290-298: the frame buffer as rows of text
frameText(fb) == [j \in 1 .. HEIGHT |-> [i \in 1 .. WIDTH |-> fb[(j - 1) * WIDTH + (i - 1)]]]

\* (mutant) the frame buffer of the frame before is used again
keptFrameBuffer == frameBuffer

\* line 240: Array(WIDTH * HEIGHT).fill(' ')
newFrameBuffer == BlankFrame

\* line 241: Array(WIDTH * HEIGHT).fill(Infinity)
newZBuffer == FarDepth

\* renderFrame()
renderFrame ==
    LET scene == [c \in 1 .. Len(cubes) |-> rotateCube(cubes[c])]
    IN  \E F \in {renderCubes(FrameState(Raster(newFrameBuffer, newZBuffer, <<>>), <<>>),
                               1, scene, ASCII_RAMP)} :
            /\ time' = time + 1
            /\ cubes' = scene
            /\ frameBuffer' = F.R.frameBuffer
            /\ zBuffer' = F.R.zBuffer
            /\ frags' = F.R.frags
            /\ tris' = F.tris
            /\ calls' = Len(F.R.frags)
            /\ prevFrame' = frameBuffer
            /\ output' = frameText(F.R.frameBuffer)

\* ------------------------------------------------------------ the scene
\* one object of the scene (lines 222-234)
Cube(position, rotation) ==
    [position |-> position, rotation |-> rotation, scale |-> Vertex(Scale, Scale, Scale)]

\* values Math.random() * Math.PI * 2 can take for rotation.x and rotation.y
AnglesX == {0, HalfPi, Pi, Scale}
AnglesY == {0, Pi, 2 * Scale}

\* values (Math.random() - 0.5) * 20 can take, as positions
Positions == {Vertex(0, 0, 0), Vertex(3 * Scale, -2 * Scale, 5 * Scale)}

\* the angle after a, in a cycle through the set A
NextAngle(A, a) ==
    IF \E b \in A : b > a THEN CHOOSE b \in A : b > a /\ \A c \in A : c > a => b <= c
    ELSE CHOOSE b \in A : \A c \in A : b <= c

\* scenes of no, one and two cubes
Scenes ==
    {<<>>}
    \cup {<<Cube(q, Vertex(x, y, 0))>> : q \in Positions, x \in AnglesX, y \in AnglesY}
    \cup {<<Cube(Vertex(0, 0, 0), Vertex(x, y, 0)),
            Cube(Vertex(0, 0, 0), Vertex(NextAngle(AnglesX, x), NextAngle(AnglesY, y), HalfPi))>> :
              x \in AnglesX, y \in AnglesY}

\* ------------------------------------------------------------ frames
\* renderFrame applied tick after tick to a scene of any size

FrameInit ==
    /\ pc = "running"
    /\ args = <<>>
    /\ ASCII_RAMP = DefaultRamp
    /\ cubes \in Scenes
    /\ time = 0
    /\ frameBuffer = BlankFrame
    /\ zBuffer = FarDepth
    /\ frags = <<>>
    /\ calls = 0
    /\ tris = <<>>
    /\ prevFrame = BlankFrame
    /\ output = <<>>
    /\ probe = NoProbe
    /\ LoopIdle

\* lines 320-322: the timer's callback
Tick ==
    /\ pc = "running"
    /\ time < MaxFrames
    /\ renderFrame
    /\ UNCHANGED <<pc, args, ASCII_RAMP, probe, loop>>

FrameNext == Tick

SpecFrame == FrameInit /\ [][FrameNext]_vars

\* ------------------------------------------------------------ claims C5, C6, C10
RECURSIVE SumCalls(_, _)
\* the number of drawPixel calls the first n triangles of the history made
SumCalls(log, n) == IF n = 0 THEN 0 ELSE log[n].calls + SumCalls(log, n - 1)

\* C5: back-face culling. In every frame a triangle whose intensity is <= 0
\* makes no drawPixel call and leaves both buffers as it found them; a triangle
\* whose intensity is > 0 emits its three edges (at least one call each); and
\* the frame's calls are exactly those of its triangles
C5_BackFaceCulling ==
    /\ \A n \in 1 .. Len(tris) :
          /\ tris[n].intensity <= 0 =>
                /\ tris[n].calls = 0
                /\ tris[n].after = tris[n].before
          /\ tris[n].intensity > 0 => tris[n].calls >= 3
    /\ SumCalls(tris, Len(tris)) = Len(frags)
    /\ time > 0 => Len(tris) = (Len(cubeIndices) \div 3) * Len(cubes)

\* a frame that met a triangle facing away from the light after a drawn one
\* had left cells in the buffers, and a drawn triangle after that
C5_Witness ==
    \E n \in 1 .. Len(tris), d \in 1 .. Len(tris) :
        /\ tris[n].intensity <= 0
        /\ \E i \in Cells : tris[n].before.frameBuffer[i] # Blank
        /\ d > n
        /\ tris[d].intensity > 0
        /\ tris[d].after # tris[d].before

\* a fragment of this frame that can pass the depth test of a new buffer
Passing(i) == \E k \in CallsAt(i) : JsLess(frags[k].z, Infinity)

\* C6: buffers are frame-scoped. In every emitted frame a cell that received
\* no passing fragment during the frame is blank and holds depth +Infinity,
\* whatever the frame before drew there; with no objects every cell is blank
C6_FrameScopedBuffers ==
    /\ \A i \in Cells :
          ~Passing(i) =>
              /\ frameBuffer[i] = Blank
              /\ zBuffer[i] = Infinity
              /\ time > 0 => output[(i \div WIDTH) + 1][(i % WIDTH) + 1] = Blank
    /\ (cubes = <<>> /\ time > 0) =>
          \A j \in 1 .. HEIGHT, i \in 1 .. WIDTH : output[j][i] = Blank

\* a second frame in which a cell the first frame drew received nothing
C6_Witness ==
    /\ time >= 2
    /\ \E i \in Cells :
          /\ prevFrame[i] # Blank
          /\ ~Passing(i)
          /\ frameBuffer[i] = Blank
    /\ \E i \in Cells : frameBuffer[i] # Blank

\* C10: one frame of a scene holding a single cube leaves a non-blank cell in
\* the frame buffer and no negative depth in the depth buffer
C10_SingleCubeFrame ==
    (Len(cubes) = 1 /\ time = 1) =>
        /\ \E i \in Cells : frameBuffer[i] # Blank
        /\ \A i \in Cells : ~JsLess(zBuffer[i], 0)

\* ------------------------------------------------------------ the program
\* a string is the sequence of its characters
AsciiFlag == <<"-", "-", "a", "s", "c", "i", "i">>
ColorsFlag == <<"-", "-", "c", "o", "l", "o", "r", "s">>

\* command lines: no flag, the flag with no value, with an empty value, with
\* ramps of one and two glyphs, and after another flag
ArgChoices ==
    { <<>>,
      <<AsciiFlag>>,
      <<AsciiFlag, <<>>>>,
      <<AsciiFlag, <<"#">>>>,
      <<ColorsFlag, <<"r", "e", "d">>, AsciiFlag, <<".", "#">>>> }

\* args.indexOf(flag): the first position from 0, -1 when absent
indexOf(a, flag) ==
    IF \E k \in 1 .. Len(a) : a[k] = flag
    THEN (CHOOSE k \in 1 .. Len(a) : a[k] = flag /\ \A j \in 1 .. (k - 1) : a[j] # flag) - 1
    ELSE -1

\* (mutant) any value after the flag is taken, the empty one too
TruthyAlways(a, n) == TRUE

\* args[n] is truthy: present and not the empty string
Truthy(a, n) == n < Len(a) /\ a[n + 1] # <<>>

\* args[n]; a missing element reads as the empty ramp
argAt(a, n) == IF n < Len(a) THEN a[n + 1] ELSE <<>>

\* lines 8-14 and 25: the ramp the session uses
customAsciiRamp(a) ==
    LET asciiFlagIndex == indexOf(a, AsciiFlag)
    IN  IF asciiFlagIndex # -1 /\ Truthy(a, asciiFlagIndex + 1)
        THEN argAt(a, asciiFlagIndex + 1)
        ELSE DefaultRamp

\* poses Math.random() can give a cube (lines 223-232)
Poses ==
    << Cube(Vertex(0, 0, 0), Vertex(0, 0, 0)),
       Cube(Vertex(3 * Scale, -2 * Scale, 5 * Scale), Vertex(Pi, 0, HalfPi)),
       Cube(Vertex(-10 * Scale, 0, 9 * Scale), Vertex(HalfPi, Pi, 0)),
       Cube(Vertex(Scale, Scale, -Scale), Vertex(Scale, 2 * Scale, 3 * Scale)) >>

\* setupScene(): numCubes cubes, the random draws fixed by a seed
setupScene(seed) ==
    [c \in 1 .. numCubes |-> Poses[((seed + c - 2) % Len(Poses)) + 1]]

\* the keys of a keypress event
Keys ==
    { [ctrl |-> TRUE, name |-> "c"], [ctrl |-> FALSE, name |-> "c"],
      [ctrl |-> FALSE, name |-> "q"], [ctrl |-> FALSE, name |-> "x"] }

\* line 310
QuitKey(key) == (key.ctrl /\ key.name = "c") \/ key.name = "q"

Init ==
    /\ pc = "boot"
    /\ args \in ArgChoices
    /\ ASCII_RAMP = DefaultRamp
    /\ cubes = <<>>
    /\ time = 0
    /\ frameBuffer = BlankFrame
    /\ zBuffer = FarDepth
    /\ frags = <<>>
    /\ calls = 0
    /\ tris = <<>>
    /\ prevFrame = BlankFrame
    /\ output = <<>>
    /\ probe = NoProbe
    /\ LoopIdle

\* the script from its first line to the end of start(): the ramp is read
\* from the command line, the scene is set up, the timer is armed
Start ==
    /\ pc = "boot"
    /\ ASCII_RAMP' = customAsciiRamp(args)
    /\ \E seed \in 1 .. Len(Poses) : cubes' = setupScene(seed)
    /\ pc' = "running"
    /\ UNCHANGED <<args, time, frameBuffer, zBuffer, frags, calls, tris,
                   prevFrame, output, probe, loop>>

\* lines 309-313: the keypress listener
Keypress ==
    /\ pc = "running"
    /\ \E key \in Keys : pc' = IF QuitKey(key) THEN "exited" ELSE pc
    /\ UNCHANGED <<args, ASCII_RAMP, cubes, time, frameBuffer, zBuffer, frags,
                   calls, tris, prevFrame, output, probe, loop>>

Next == Start \/ Tick \/ Keypress

Spec == Init /\ [][Next]_vars

\* C7: an empty ramp given on the command line never reaches the frame loop:
\* once the script has started the ramp in use has at least one glyph, and
\* every glyph index a frame computed lies in 0 .. rampLength-1
C7_RampNeverEmpty ==
    pc # "boot" =>
        /\ Len(ASCII_RAMP) > 0
        /\ \A n \in 1 .. Len(tris) :
              tris[n].lit => tris[n].glyph \in 0 .. (Len(ASCII_RAMP) - 1)

\* --ascii was given an empty value and a frame has drawn triangles
C7_Witness ==
    /\ indexOf(args, AsciiFlag) # -1
    /\ indexOf(args, AsciiFlag) + 1 < Len(args)
    /\ args[indexOf(args, AsciiFlag) + 2] = <<>>
    /\ time > 0
    /\ \E n \in 1 .. Len(tris) : tris[n].lit /\ tris[n].calls > 0

\* ------------------------------------------------------------ the transform
\* transformPoint and the screen mapping applied to one point on their own

\* world matrices: the identity and the rotations of lines 253-256
Worlds ==
    {mat4_create}
    \cup {mat4_multiply(mat4_fromXRotation(x), mat4_fromYRotation(y)) :
             x \in AnglesX, y \in AnglesY}

\* points of world space: the origin, the cube's vertices, the mid-points of
\* its edges and faces
WorldPoints ==
    {Vertex(x, y, z) : x \in {-Scale, 0, Scale}, y \in {-Scale, 0, Scale},
                       z \in {-Scale, 0, Scale}}

\* line 257: the transform of a world matrix
worldTransform(world) ==
    mat4_multiply(projectionMatrix, mat4_multiply(createViewMatrix(camera), world))

MathInit == RasterInit

\* lines 257-264 for one point
TransformProbe ==
    /\ probe = NoProbe
    /\ \E world \in Worlds, p \in WorldPoints :
          probe' = [kind |-> "point", world |-> world, p |-> p,
                    w |-> transformW(worldTransform(world), p),
                    screen |-> toScreen(worldTransform(world), p)]
    /\ UNCHANGED <<pc, args, ASCII_RAMP, cubes, time, frameBuffer, zBuffer, frags,
                   calls, tris, prevFrame, output, loop>>

\* lines 253-256 and 260 for one rotation and one point: the world matrix
\* and the point it sends a mesh position to
WorldProbe ==
    /\ probe = NoProbe
    /\ \E x \in AnglesX, y \in AnglesY, p \in WorldPoints :
          LET cube == Cube(Vertex(0, 0, 0), Vertex(x, y, 0))
          IN  probe' = [kind |-> "world", rotation |-> cube.rotation, p |-> p,
                        world |-> worldMatrix(cube),
                        moved |-> mat4_transformPoint(worldMatrix(cube), p),
                        transform |-> cubeTransform(cube)]
    /\ UNCHANGED <<pc, args, ASCII_RAMP, cubes, time, frameBuffer, zBuffer, frags,
                   calls, tris, prevFrame, output, loop>>

\* the first indices of the mesh's triangles (line 266)
TriangleStarts == {i \in 0 .. (Len(cubeIndices) - 1) : i % 3 = 0}

\* line 271 for one triangle of the mesh
NormalProbe ==
    /\ probe = NoProbe
    /\ \E i \in TriangleStarts :
          probe' = [kind |-> "triangle", i |-> i,
                    v1 |-> meshVertex(i), v2 |-> meshVertex(i + 1), v3 |-> meshVertex(i + 2),
                    normal |-> faceNormal(i)]
    /\ UNCHANGED <<pc, args, ASCII_RAMP, cubes, time, frameBuffer, zBuffer, frags,
                   calls, tris, prevFrame, output, loop>>

MathNext == TransformProbe \/ WorldProbe \/ NormalProbe

SpecMath == MathInit /\ [][MathNext]_vars

\* C9: with the session's projection and view and the identity as world
\* matrix, the world origin has a non-zero perspective divisor and maps to
\* finite screen coordinates within half a cell of (WIDTH/2, HEIGHT/2)
C9_OriginAtScreenCentre ==
    (probe # NoProbe /\ probe.world = mat4_create /\ probe.p = Vertex(0, 0, 0)) =>
        /\ probe.w # 0
        /\ IsFinite(probe.screen.x)
        /\ IsFinite(probe.screen.y)
        /\ Abs(2 * probe.screen.x - WIDTH * Scale) <= Scale
        /\ Abs(2 * probe.screen.y - HEIGHT * Scale) <= Scale

\* ------------------------------------------------------------ the event loop
\* The timer and the keyboard put events in the loop's queue at any moment,
\* also while a handler runs; the loop starts the handler of the next event.
\* renderFrame is followed through its stages: its first lines (buffers,
\* clock), the loop over the objects, and the emission of the text.

NoKey == [ctrl |-> FALSE, name |-> ""]
TickEvent == [type |-> "tick", key |-> NoKey]
KeyEvent(key) == [type |-> "key", key |-> key]

\* the keys that arrive: one that quits and one that does not
LoopKeys == {key \in Keys : ~key.ctrl /\ key.name \in {"q", "x"}}

\* (mutant) one pair of buffers serves every frame
sharedPair(frame) == 0

\* lines 240-241: each call of renderFrame creates its own two arrays; a
\* pair is named by the frame that created it
bufferPair(frame) == frame

\* renderFrame holds no await and no yield, and start() arms one timer: the
\* loop takes the next event only when no handler is in flight
Idle == running = <<>>

\* the state after start() (lines 315-323)
LoopInit ==
    /\ pc = "running"
    /\ args = <<>>
    /\ ASCII_RAMP = customAsciiRamp(<<>>)
    /\ cubes = setupScene(1)
    /\ time = 0
    /\ frameBuffer = BlankFrame
    /\ zBuffer = FarDepth
    /\ frags = <<>>
    /\ calls = 0
    /\ tris = <<>>
    /\ prevFrame = BlankFrame
    /\ output = <<>>
    /\ probe = NoProbe
    /\ LoopIdle

\* line 320: the interval elapses; an elapsed interval waits in the queue
\* until its callback has been started
TimerExpires ==
    /\ pc = "running"
    /\ time < MaxFrames
    /\ \A n \in 1 .. Len(queue) : queue[n].type # "tick"
    /\ queue' = Append(queue, TickEvent)
    /\ UNCHANGED <<pc, args, ASCII_RAMP, cubes, time, frameBuffer, zBuffer, frags,
                   calls, tris, prevFrame, output, probe, running, wrote>>

\* a key is pressed
KeyArrives ==
    /\ pc = "running"
    /\ Len(queue) < MaxQueue
    /\ \E key \in LoopKeys : queue' = Append(queue, KeyEvent(key))
    /\ UNCHANGED <<pc, args, ASCII_RAMP, cubes, time, frameBuffer, zBuffer, frags,
                   calls, tris, prevFrame, output, probe, running, wrote>>

\* the loop starts the timer's callback: lines 238-243 of renderFrame
BeginFrame ==
    /\ pc = "running"
    /\ Idle
    /\ queue # <<>>
    /\ Head(queue).type = "tick"
    /\ queue' = Tail(queue)
    /\ running' = Append(running, [handler |-> "renderFrame", frame |-> time + 1,
                                   buffers |-> bufferPair(time + 1), stage |-> "scene"])
    /\ time' = time + 1
    /\ frameBuffer' = newFrameBuffer
    /\ zBuffer' = newZBuffer
    /\ frags' = <<>>
    /\ tris' = <<>>
    /\ calls' = 0
    /\ prevFrame' = frameBuffer
    /\ UNCHANGED <<pc, args, ASCII_RAMP, cubes, output, probe, wrote>>

\* lines 245-287: the objects are updated, transformed, lit and rasterized
DrawScene ==
    /\ pc = "running"
    /\ \E n \in 1 .. Len(running) :
          /\ running[n].stage = "scene"
          /\ LET scene == [c \in 1 .. Len(cubes) |-> rotateCube(cubes[c])]
             IN  \E F \in {renderCubes(FrameState(Raster(frameBuffer, zBuffer, <<>>), <<>>),
                                        1, scene, ASCII_RAMP)} :
                     /\ cubes' = scene
                     /\ frameBuffer' = F.R.frameBuffer
                     /\ zBuffer' = F.R.zBuffer
                     /\ frags' = F.R.frags
                     /\ tris' = F.tris
                     /\ calls' = Len(F.R.frags)
          /\ wrote' = wrote \cup {<<running[n].buffers, running[n].frame>>}
          /\ running' = [running EXCEPT ![n].stage = "emit"]
    /\ UNCHANGED <<pc, args, ASCII_RAMP, time, prevFrame, output, probe, queue>>

\* lines 289-301: the text is written; renderFrame returns
EmitFrame ==
    /\ pc = "running"
    /\ \E n \in 1 .. Len(running) :
          /\ running[n].stage = "emit"
          /\ output' = frameText(frameBuffer)
          /\ running' = SubSeq(running, 1, n - 1) \o SubSeq(running, n + 1, Len(running))
    /\ UNCHANGED <<pc, args, ASCII_RAMP, cubes, time, frameBuffer, zBuffer, frags,
                   calls, tris, prevFrame, probe, queue, wrote>>

\* the loop starts the keypress listener (lines 309-313), which returns or
\* ends the process
HandleKey ==
    /\ pc = "running"
    /\ Idle
    /\ queue # <<>>
    /\ Head(queue).type = "key"
    /\ IF QuitKey(Head(queue).key)
       THEN pc' = "exited" /\ queue' = <<>>
       ELSE pc' = pc /\ queue' = Tail(queue)
    /\ UNCHANGED <<args, ASCII_RAMP, cubes, time, frameBuffer, zBuffer, frags,
                   calls, tris, prevFrame, output, probe, running, wrote>>

LoopNext ==
    TimerExpires \/ KeyArrives \/ BeginFrame \/ DrawScene \/ EmitFrame \/ HandleKey

SpecLoop == LoopInit /\ [][LoopNext]_vars

\* C8: at most one frame is in flight. Whatever the order in which timer
\* ticks and keys arrive, at most one renderFrame execution is in flight, a
\* handler (the next renderFrame or the keypress listener) starts only when
\* none is, and no buffer pair is written by two renderFrame executions
C8_OneFrameInFlight ==
    /\ [](Len(running) <= 1)
    /\ [](\A a \in wrote, b \in wrote : a[1] = b[1] => a[2] = b[2])
    /\ [][(Len(running') > Len(running) \/ Len(queue') < Len(queue)) =>
              running = <<>>]_vars

\* a second frame is in flight, the first having written its buffers, while
\* a key and the next tick wait in the queue
C8_Witness ==
    /\ Len(running) = 1
    /\ running[1].frame = 2
    /\ running[1].stage = "emit"
    /\ <<bufferPair(1), 1>> \in wrote
    /\ <<bufferPair(2), 2>> \in wrote
    /\ \E n \in 1 .. Len(queue) : queue[n].type = "key"

\* ------------------------------------------------------------ claim C11
\* two numbers, two matrices, two points agree within rounding
Near(a, b) == Abs(a - b) <= Scale \div 100
NearMatrix(m, n) == \A k \in 1 .. 16 : Near(m[k], n[k])
NearPoint(p, q) == Near(p.x, q.x) /\ Near(p.y, q.y) /\ Near(p.z, q.z)

\* C11: the world matrix is rotationY(rotation.y) . rotationX(rotation.x), a
\* point through transformPoint is turned about Y first and about X after,
\* and the transform is projection . view . world
C11_WorldIsYThenX ==
    probe.kind = "world" =>
        LET rotX == mat4_fromXRotation(probe.rotation.x)
            rotY == mat4_fromYRotation(probe.rotation.y)
        IN  /\ NearMatrix(probe.world, mat4_multiply(rotY, rotX))
            /\ NearPoint(probe.moved,
                         mat4_transformPoint(rotX, mat4_transformPoint(rotY, probe.p)))
            /\ probe.transform =
                 mat4_multiply(projectionMatrix,
                               mat4_multiply(createViewMatrix(camera), probe.world))

\* ------------------------------------------------------------ claim C12
\* the intensity of the triangle at indices i .. i+2 of a cube computed from
\* its positions after the cube's rotation: the normal of the turned triangle
\* against the light
liveIntensity(cube, i) ==
    LET w1 == mat4_transformPoint(worldMatrix(cube), meshVertex(i))
        w2 == mat4_transformPoint(worldMatrix(cube), meshVertex(i + 1))
        w3 == mat4_transformPoint(worldMatrix(cube), meshVertex(i + 2))
    IN  vec3_dot(vec3_normalize(vec3_cross(vec3_subtract(w2, w1), vec3_subtract(w3, w1))),
                 lightDir)

\* C12: the intensity a frame gives a triangle is that of the triangle's
\* geometry after the object's rotation of this frame, and whether it is drawn
\* follows from it
C12_LightingFollowsRotation ==
    \A n \in 1 .. Len(tris) :
        LET live == liveIntensity(cubes[tris[n].cube], tris[n].i)
        IN  /\ Near(tris[n].intensity, live)
            /\ ~Near(live, 0) => (tris[n].lit <=> live > 0)

\* ------------------------------------------------------------ claim C13
\* C13: the normal of every triangle of the mesh points away from the
\* cube's centre: its dot product with the triangle's centroid (a third of
\* the sum of its vertices) is positive
C13_WindingOutward ==
    probe.kind = "triangle" =>
        vec3_dot(probe.normal,
                 Vertex(probe.v1.x + probe.v2.x + probe.v3.x,
                        probe.v1.y + probe.v2.y + probe.v3.y,
                        probe.v1.z + probe.v2.z + probe.v3.z)) > 0

\* ------------------------------------------------------------ claim C14
\* the scene with every object moved to position q, rotations kept
movedScene(scene, q) == [c \in 1 .. Len(scene) |-> [scene[c] EXCEPT !.position = q]]

\* the buffers a frame of the scene leaves (lines 240-241, 249-288)
frameOf(scene) ==
    renderCubes(FrameState(Raster(newFrameBuffer, newZBuffer, <<>>), <<>>), 1, scene, ASCII_RAMP).R

\* C14: the rendered output does not depend on the objects' positions. After
\* any number of ticks, the frame and depth buffers equal those of a scene that
\* has the same rotations and any other positions
C14_PositionIndependent ==
    time > 0 =>
        \A q \in Positions :
            \A R \in {frameOf(movedScene(cubes, q))} :
                /\ R.frameBuffer = frameBuffer
                /\ R.zBuffer = zBuffer

\* a frame that drew an object standing away from the origin, after two ticks
C14_Witness ==
    /\ time = 2
    /\ Len(cubes) = 1
    /\ cubes[1].position # Vertex(0, 0, 0)
    /\ \E i \in Cells : frameBuffer[i] # Blank
    /\ \E q \in Positions : movedScene(cubes, q) # cubes

\* ------------------------------------------------------------ claim C15
\* the object after n ticks of the update step (lines 250-251)
advanced(cube, n) ==
    [cube EXCEPT !.rotation.x = @ + n * (Scale \div 100), !.rotation.y = @ + n * (Scale \div 100)]

\* C15: the update step. From any initial scene, after n ticks the scene holds
\* the same number of objects, each with rotation.x and rotation.y n increments
\* of 0.01 above its initial values and with its rotation.z, position and
\* scale as they were; and the frame of a tick is the frame of the rotations
\* the tick has already advanced
C15_UpdateStep ==
    \A s \in Scenes :
        (cubes = s /\ time = 0) =>
            [](/\ Len(cubes) = Len(s)
               /\ \A c \in 1 .. Len(s) : cubes[c] = advanced(s[c], time)
               /\ time > 0 => frameBuffer = frameOf(cubes).frameBuffer)

\* two ticks over a scene of two objects, one of them turned about z
C15_Witness ==
    /\ time = 2
    /\ Len(cubes) = 2
    /\ cubes[2].rotation.z # 0
    /\ cubes[1].rotation.x # cubes[2].rotation.x
    /\ cubes[2].rotation.x = NextAngle(AnglesX, cubes[1].rotation.x - 2 * (Scale \div 100))
                               + 2 * (Scale \div 100)

\* ------------------------------------------------------------ drawLine, step by step
\* The loop of drawLine, one iteration at a time, over endpoints near the
\* screen and endpoints near 2^53 in x, where the doubles are two apart. An x
\* coordinate origin * 2^53 + k is held as the offset k from its origin
\* (origin in -1 .. 1, the same for p1 and p2, so that every difference the
\* loop forms is exact).

\* the longest walk followed
MaxSteps == 20

\* the offset of the double nearest to origin * 2^53 + k (ties to the even
\* significand), for |k| < 2^53: what x0 += sx leaves in x0 (line 208)
DoubleInt(origin, k) ==
    LET m == Abs(k)
        r == IF (m + 1) % 4 = 0 THEN m + 1 ELSE m - 1
    IN  IF origin # 0 /\ Sign(k) = origin /\ m % 2 = 1 THEN Sign(k) * r ELSE k

\* the farthest finite numbers of the model: drawPixel only compares its x
\* with 0 and WIDTH (line 179), and a cell near +/-2^53 is passed as these
FarRight == Infinity - Scale
FarLeft == NegInfinity + Scale

\* the x of the cell at offset k, as drawPixel receives it
pixelX(origin, k) == IF origin = 0 THEN k * Scale ELSE IF origin > 0 THEN FarRight ELSE FarLeft

\* x offsets of endpoints near +/-2^53: doubles, so even beyond the origin
FarXs == {-3 * Scale, -1 * Scale, 0, 2 * Scale}

\* lines 190-199: drawLine up to its loop
LineEnter ==
    /\ probe = NoProbe
    /\ \E origin \in {-1, 0, 1}, y1 \in LineYs, y2 \in LineYs :
       \E x1 \in IF origin = 0 THEN LineXs ELSE {origin * x : x \in FarXs},
          x2 \in IF origin = 0 THEN LineXs ELSE {origin * x : x \in FarXs} :
          LET p1 == Vertex(x1, y1, Scale \div 2)
              p2 == Vertex(x2, y2, 2 * Scale)
              dx == Abs(MathRound(p2.x) - MathRound(p1.x))
              dy == Abs(MathRound(p2.y) - MathRound(p1.y))
          IN  probe' = [kind |-> "walk", origin |-> origin, p1 |-> p1, p2 |-> p2,
                        x0 |-> MathRound(p1.x), y0 |-> MathRound(p1.y),
                        x1 |-> MathRound(p2.x), y1 |-> MathRound(p2.y),
                        dx |-> dx, dy |-> dy,
                        sx |-> IF MathRound(p1.x) < MathRound(p2.x) THEN 1 ELSE -1,
                        sy |-> IF MathRound(p1.y) < MathRound(p2.y) THEN 1 ELSE -1,
                        err |-> dx - dy, done |-> FALSE, path |-> <<>>]
    /\ UNCHANGED <<pc, args, ASCII_RAMP, cubes, time, frameBuffer, zBuffer, frags,
                   calls, tris, prevFrame, output, loop>>

\* lines 201-210: one iteration of the loop
LineStep ==
    /\ probe.kind = "walk"
    /\ ~probe.done
    /\ Len(probe.path) < MaxSteps
    /\ \E R \in {drawPixel(Raster(frameBuffer, zBuffer, frags),
                           pixelX(probe.origin, probe.x0), probe.y0 * Scale,
                           lineZ(probe.p1, probe.p2,
                                 lineT(probe.x0, probe.y0, probe.x1, probe.y1, probe.p1)),
                           "#", 0)} :
          /\ frameBuffer' = R.frameBuffer
          /\ zBuffer' = R.zBuffer
          /\ frags' = R.frags
    /\ LET e2 == 2 * probe.err
           stepX == e2 > -probe.dy
           stepY == e2 < probe.dx
           path == Append(probe.path, <<probe.x0, probe.y0>>)
       IN  probe' = IF probe.x0 = probe.x1 /\ probe.y0 = probe.y1
                    THEN [probe EXCEPT !.done = TRUE, !.path = path]
                    ELSE [probe EXCEPT
                            !.path = path,
                            !.x0 = IF stepX THEN DoubleInt(probe.origin, @ + probe.sx) ELSE @,
                            !.y0 = IF stepY THEN @ + probe.sy ELSE @,
                            !.err = (IF stepX THEN @ - probe.dy ELSE @)
                                    + (IF stepY THEN probe.dx ELSE 0)]
    /\ UNCHANGED <<pc, args, ASCII_RAMP, cubes, time, calls, tris, prevFrame, output, loop>>

WalkInit == RasterInit

WalkNext == LineEnter \/ LineStep

SpecWalk == WalkInit /\ [][WalkNext]_vars

\* ------------------------------------------------------------ claim C16
\* the number of steps of a walk between the rounded endpoints
walkLength == IF probe.dx > probe.dy THEN probe.dx ELSE probe.dy

\* C16: drawLine terminates for every pair of finite endpoints. Its loop
\* calls drawPixel once per visited cell, starts at the cell of the rounded
\* p1, moves to another cell at most one away on each axis per step, never
\* makes more than max(|x1-x0|, |y1-y0|) steps, and with that many steps made
\* it stands on the cell of the rounded p2 and has left the loop
C16_LineTerminates ==
    probe.kind = "walk" =>
        /\ Len(frags) = Len(probe.path)
        /\ Len(probe.path) >= 1 =>
              probe.path[1] = <<MathRound(probe.p1.x), MathRound(probe.p1.y)>>
        /\ \A k \in 1 .. (Len(probe.path) - 1) :
              /\ probe.path[k + 1] # probe.path[k]
              /\ Abs(probe.path[k + 1][1] - probe.path[k][1]) <= 1
              /\ Abs(probe.path[k + 1][2] - probe.path[k][2]) <= 1
        /\ Len(probe.path) <= walkLength + 1
        /\ Len(probe.path) = walkLength + 1 =>
              /\ probe.done
              /\ probe.path[walkLength + 1] = <<probe.x1, probe.y1>>
        /\ probe.done => Len(probe.path) = walkLength + 1

====
